---- MODULE Spec2Model ----
(***************************************************************************)
(* Model of crew_builder_croq_fancy.py: the Streamlit session, the button  *)
(* handler handle_crew_creation, the dispatch loop create_and_run_crew and *)
(* the remote completion service they call.                                *)
(*                                                                         *)
(* A Python str is modelled as the non-empty sequence of its lines (the    *)
(* str split on "\n"): "a\n\nb" is <<"a", "", "b">> and "" is <<"">>.      *)
(* None is <<>> and a present value x is <<x>>.                            *)
(***************************************************************************)
EXTENDS Integers, Sequences, FiniteSets, TLC

\* Largest number of agents tried (the widget allows up to 10).
MaxAgents == 2

\* Width of the '=' and '-' rule lines of the report.
RuleWidth == 50

None == <<>>
Some(x) == <<x>>

(***************************************************************************)
(* Strings.                                                                *)
(***************************************************************************)

\* str + str on the line representation: the last line of a joins the
\* first line of b.
Cat(a, b) ==
    SubSeq(a, 1, Len(a) - 1) \o <<a[Len(a)] \o b[1]>> \o Tail(b)

\* str * int for a single-line str.
RECURSIVE Mul(_, _)
Mul(s, n) == IF n <= 0 THEN "" ELSE s \o Mul(s, n - 1)

\* f"{i+1}" for the 0-based loop index i; the model's indexes are 1-based.
Fmt(i) == ToString(i)

\* f"Agent {i+1}: {config['name']}"
AgentTitle(i, name) == "Agent " \o Fmt(i) \o ": " \o name

(***************************************************************************)
(* Inputs the user and the environment can supply.                         *)
(***************************************************************************)

\* st.text_input for the key: a str, empty when nothing was typed.
Keys == {"", "gsk_live"}

\* What one "Agent i Configuration" block can hold: a name (st.text_input,
\* one line, possibly empty) and instructions (st.text_area, any text).
Configs ==
    { [name |-> "Researcher", instructions |-> <<"Summarize X">>],
      [name |-> "", instructions |-> <<"Write", "a poem">>] }

\* st.text_area for the user input (the shared context).
Contexts == {<<"focus on Q3">>, <<"">>}

\* Lists of number_of_agents configs, number_of_agents in 1..MaxAgents.
ConfigLists == UNION {[1..n -> Configs] : n \in 1..MaxAgents}

\* str(e) of the exceptions the libraries raise.
ExcMessages == {"Connection error."}

\* What the remote service answers to a prompt: an echo of it, or a text
\* of its own.
Responses(prompt) == {prompt, <<"42">>}

\* datetime.now().strftime("%Y-%m-%d %H:%M:%S"): the readings of the clock.
\* One reading is kept: the timestamp lines are the only place it shows.
Timestamps == {"2024-05-01 10:00:00"}

VARIABLES
    pc,               \* position of the script / handler
    groq_api_key,     \* handle_crew_creation's arguments
    agent_configs,
    human_input,
    model,            \* the connection handle, None until constructed
    idx,              \* create_and_run_crew: index of the config in the loop
    agentlist,        \* create_and_run_crew: local agentlist
    results,          \* create_and_run_crew: local results
    tasklist,         \* handle_crew_creation: returned tasklist (None or Some)
    hresults,         \* handle_crew_creation: returned results (None or Some)
    calls,            \* the remote service's log of calls of this run
    exc,              \* the exception raised in this run (where, str(e), and the
                      \* loop's config index at that moment), None if none
    errors,           \* st.error messages shown in this script run
    displayed,        \* what results_container shows in this script run
    combined_text,    \* handle_crew_creation: local combined_text
    download_content, \* st.session_state.download_content
    propagated,       \* an exception left handle_crew_creation
    lastGood          \* report of the most recent run that returned from line 90

vars == <<pc, groq_api_key, agent_configs, human_input, model, idx, agentlist,
          results, tasklist, hresults, calls, exc, errors, displayed,
          combined_text, download_content, propagated, lastGood>>

N == Len(agent_configs)

Init ==
    /\ pc = "idle"
    /\ groq_api_key = ""
    /\ agent_configs = <<>>
    /\ human_input = <<"">>
    /\ model = None
    /\ idx = 0
    /\ agentlist = <<>>
    /\ results = <<>>
    /\ tasklist = None
    /\ hresults = None
    /\ calls = <<>>
    /\ exc = None
    /\ errors = <<>>
    /\ displayed = None
    /\ combined_text = None
    /\ download_content = None
    /\ propagated = FALSE
    /\ lastGood = None

(***************************************************************************)
(* Exceptions.                                                             *)
(***************************************************************************)

\* Positions inside the try of create_and_run_crew's loop body.
InnerTry == {"agent", "run", "await"}

\* OuterTry with the try ending after the dispatch.
OuterTry_Short == {"model", "loop", "agent", "run", "await", "inner_except",
                   "check_none"}

\* Positions inside the try of handle_crew_creation (the call of
\* create_and_run_crew included).
OuterTry == {"model", "loop", "agent", "run", "await", "inner_except",
             "check_none", "render", "report_cfg", "report_res", "store"}

\* Where control goes when an Exception is raised at position p.
Handler(p) ==
    IF p \in InnerTry THEN "inner_except"
    ELSE IF p \in OuterTry THEN "outer_except"
    ELSE "raised"

\* The statements that call into a library that can raise.
RaisePoints == {"model", "agent", "await", "render", "report_cfg", "report_res"}

\* The frame of create_and_run_crew is gone once it returned or was unwound.
InCrew(p) == p \in {"loop", "agent", "run", "await", "inner_except"}

(***************************************************************************)
(* The report text (lines 59-87).                                          *)
(***************************************************************************)

Rule == Mul("=", RuleWidth)
Dash == Mul("-", RuleWidth)

\* The first f-string: header, PART 1 title, timestamp, shared context.
ReportHead(ts, ctx) ==
    Cat(Cat(<<"AUTONOMOUS CREW BUILDER - COMPLETE REPORT",
              Rule,
              "",
              "PART 1: CREW CONFIGURATION",
              Rule,
              "Timestamp: " \o ts,
              "",
              "Additional Context:",
              "">>,
            ctx),
        <<"", "", "Agent Configurations:", "">>)

\* The loop over enumerate(agent_configs), from entry i on.
RECURSIVE AppendConfigs(_, _, _)
AppendConfigs(text, cfgs, i) ==
    IF i > Len(cfgs) THEN text
    ELSE LET t1 == Cat(text, <<"", AgentTitle(i, cfgs[i].name), "">>)
             t2 == Cat(t1, Cat(Cat(<<"Instructions:", "">>, cfgs[i].instructions),
                               <<"", "">>))
             t3 == Cat(t2, <<Dash, "">>)
         IN  AppendConfigs(t3, cfgs, i + 1)

\* The second f-string: PART 2 title and timestamp.
ResultsHead(ts) ==
    <<"", Rule, "PART 2: CREW RESULTS", Rule, "Timestamp: " \o ts, "",
      "Results by Agent:", "">>

\* AppendResults without the closing line of dashes.
RECURSIVE AppendResults_NoDash(_, _, _, _)
AppendResults_NoDash(text, cfgs, res, i) ==
    IF i > Len(res) THEN text
    ELSE LET t1 == Cat(text, <<"", AgentTitle(i, cfgs[i].name), "">>)
             t2 == Cat(t1, Cat(Cat(<<"Output:", "">>, res[i].final_output),
                               <<"", "">>))
         IN  AppendResults_NoDash(t2, cfgs, res, i + 1)

\* The loop over enumerate(results), from entry i on.
RECURSIVE AppendResults(_, _, _, _)
AppendResults(text, cfgs, res, i) ==
    IF i > Len(res) THEN text
    ELSE LET t1 == Cat(text, <<"", AgentTitle(i, cfgs[i].name), "">>)
             t2 == Cat(t1, Cat(Cat(<<"Output:", "">>, res[i].final_output),
                               <<"", "">>))
             t3 == Cat(t2, <<Dash, "">>)
         IN  AppendResults(t3, cfgs, res, i + 1)

\* Prompt with a single line break before the label.
Prompt_OneBreak(config, ctx) ==
    Cat(Cat(config.instructions, <<"", "Additional Context: ">>), ctx)

\* The prompt handed to Runner.run.
Prompt(config, ctx) ==
    Cat(Cat(config.instructions, <<"", "", "Additional Context: ">>), ctx)

\* What the two result tabs show.
Rendering(cfgs, res) ==
    [ detail  |-> [i \in 1..Len(res) |->
                     [title  |-> AgentTitle(i, cfgs[i].name),
                      task   |-> cfgs[i].instructions,
                      output |-> res[i].final_output]],
      summary |-> [i \in 1..Len(res) |->
                     [Agent        |-> Fmt(i) \o ": " \o cfgs[i].name,
                      Instructions |-> cfgs[i].instructions,
                      Output       |-> res[i].final_output]] ]

(***************************************************************************)
(* The script and the handler.                                             *)
(***************************************************************************)

\* Click that also clears the stored report.
Click_ClearsReport ==
    /\ pc = "idle"
    /\ \E k \in Keys, cfgs \in ConfigLists, ctx \in Contexts :
          /\ groq_api_key' = k
          /\ agent_configs' = cfgs
          /\ human_input' = ctx
    /\ pc' = "check_key"
    /\ errors' = <<>>
    /\ displayed' = None
    /\ calls' = <<>>
    /\ exc' = None
    /\ propagated' = FALSE
    /\ download_content' = None
    /\ UNCHANGED <<model, idx, agentlist, results, tasklist, hresults,
                   combined_text, lastGood>>

\* The button is clicked: the script reruns with the widgets' values and
\* calls handle_crew_creation.
Click ==
    /\ pc = "idle"
    /\ \E k \in Keys, cfgs \in ConfigLists, ctx \in Contexts :
          /\ groq_api_key' = k
          /\ agent_configs' = cfgs
          /\ human_input' = ctx
    /\ pc' = "check_key"
    /\ errors' = <<>>
    /\ displayed' = None
    /\ calls' = <<>>
    /\ exc' = None
    /\ propagated' = FALSE
    /\ UNCHANGED <<model, idx, agentlist, results, tasklist, hresults,
                   combined_text, download_content, lastGood>>

\* CheckKey that shows the message and goes on.
CheckKey_NoReturn ==
    /\ pc = "check_key"
    /\ errors' = IF groq_api_key = ""
                 THEN Append(errors, "Please enter your GROQ API key in the sidebar!")
                 ELSE errors
    /\ pc' = "model"
    /\ UNCHANGED <<groq_api_key, agent_configs, human_input, model, idx,
                   agentlist, results, tasklist, hresults, calls, exc,
                   displayed, combined_text, download_content, propagated,
                   lastGood>>

\* if not groq_api_key: st.error(...); return
CheckKey ==
    /\ pc = "check_key"
    /\ IF groq_api_key = ""
       THEN /\ errors' = Append(errors, "Please enter your GROQ API key in the sidebar!")
            /\ pc' = "ret15"
       ELSE /\ errors' = errors
            /\ pc' = "model"
    /\ UNCHANGED <<groq_api_key, agent_configs, human_input, model, idx,
                   agentlist, results, tasklist, hresults, calls, exc,
                   displayed, combined_text, download_content, propagated,
                   lastGood>>

\* The handle is constructed and create_and_run_crew is entered.
ConstructModel ==
    /\ pc = "model"
    /\ model' = Some([model |-> "llama-3.1-8b-instant",
                      base_url |-> "https://api.groq.com/openai/v1",
                      api_key |-> groq_api_key])
    /\ agentlist' = <<>>
    /\ results' = <<>>
    /\ idx' = 0
    /\ pc' = "loop"
    /\ UNCHANGED <<groq_api_key, agent_configs, human_input, tasklist, hresults,
                   calls, exc, errors, displayed, combined_text,
                   download_content, propagated, lastGood>>

\* for config in agent_configs: the next config, or return agentlist, results.
LoopNext ==
    /\ pc = "loop"
    /\ IF idx < N
       THEN /\ idx' = idx + 1
            /\ pc' = "agent"
            /\ UNCHANGED <<agentlist, results, tasklist, hresults>>
       ELSE /\ tasklist' = Some(agentlist)
            /\ hresults' = Some(results)
            /\ idx' = 0
            /\ agentlist' = <<>>
            /\ results' = <<>>
            /\ pc' = "check_none"
    /\ UNCHANGED <<groq_api_key, agent_configs, human_input, model, calls, exc,
                   errors, displayed, combined_text, download_content,
                   propagated, lastGood>>

\* agent = Agent(...); agentlist.append(agent)
CreateAgent ==
    /\ pc = "agent"
    /\ agentlist' = Append(agentlist,
                           [name |-> agent_configs[idx].name,
                            instructions |-> agent_configs[idx].instructions,
                            model |-> model[1]])
    /\ pc' = "run"
    /\ UNCHANGED <<groq_api_key, agent_configs, human_input, model, idx, results,
                   tasklist, hresults, calls, exc, errors, displayed,
                   combined_text, download_content, propagated, lastGood>>

\* StartRun that does not await the call before the next config.
StartRun_NoAwait ==
    /\ pc = "run"
    /\ calls' = Append(calls, [config |-> idx,
                               prompt |-> Prompt(agent_configs[idx], human_input),
                               status |-> "pending",
                               output |-> None])
    /\ pc' = "loop"
    /\ UNCHANGED <<groq_api_key, agent_configs, human_input, model, idx,
                   agentlist, results, tasklist, hresults, exc, errors,
                   displayed, combined_text, download_content, propagated,
                   lastGood>>

\* Runner.run(agent, prompt) is called: the request goes out.
StartRun ==
    /\ pc = "run"
    /\ calls' = Append(calls, [config |-> idx,
                               prompt |-> Prompt(agent_configs[idx], human_input),
                               status |-> "pending",
                               output |-> None])
    /\ pc' = "await"
    /\ UNCHANGED <<groq_api_key, agent_configs, human_input, model, idx,
                   agentlist, results, tasklist, hresults, exc, errors,
                   displayed, combined_text, download_content, propagated,
                   lastGood>>

\* RunReturns that inserts the result at the front.
RunReturns_Prepend ==
    /\ pc = "await"
    /\ \E out \in Responses(calls[Len(calls)].prompt) :
          /\ calls' = [calls EXCEPT ![Len(calls)].status = "returned",
                                    ![Len(calls)].output = Some(out)]
          /\ results' = <<[final_output |-> out]>> \o results
    /\ pc' = "loop"
    /\ UNCHANGED <<groq_api_key, agent_configs, human_input, model, idx,
                   agentlist, tasklist, hresults, exc, errors, displayed,
                   combined_text, download_content, propagated, lastGood>>

\* The awaited call returns; results.append(result)
RunReturns ==
    /\ pc = "await"
    /\ \E out \in Responses(calls[Len(calls)].prompt) :
          /\ calls' = [calls EXCEPT ![Len(calls)].status = "returned",
                                    ![Len(calls)].output = Some(out)]
          /\ results' = Append(results, [final_output |-> out])
    /\ pc' = "loop"
    /\ UNCHANGED <<groq_api_key, agent_configs, human_input, model, idx,
                   agentlist, tasklist, hresults, exc, errors, displayed,
                   combined_text, download_content, propagated, lastGood>>

\* A library call raises an Exception at position p.
Fail(p) ==
    /\ pc = p
    /\ \E msg \in ExcMessages : exc' = Some([at |-> p, msg |-> msg, config |-> idx])
    /\ pc' = Handler(p)
    /\ propagated' = (Handler(p) = "raised")
    /\ calls' = IF p = "await"
                THEN [calls EXCEPT ![Len(calls)].status = "raised"]
                ELSE calls
    /\ IF InCrew(p) /\ Handler(p) # "inner_except"
       THEN idx' = 0 /\ agentlist' = <<>> /\ results' = <<>>
       ELSE UNCHANGED <<idx, agentlist, results>>
    /\ UNCHANGED <<groq_api_key, agent_configs, human_input, model, tasklist,
                   hresults, errors, displayed, combined_text,
                   download_content, lastGood>>

\* InnerExcept that shows the error and goes on with the next config.
InnerExcept_Continue ==
    /\ pc = "inner_except"
    /\ errors' = Append(errors, "Error creating agent: " \o exc[1].msg)
    /\ pc' = "loop"
    /\ UNCHANGED <<groq_api_key, agent_configs, human_input, model, idx,
                   agentlist, results, tasklist, hresults, calls, exc,
                   displayed, combined_text, download_content, propagated,
                   lastGood>>

\* InnerExcept that shows the error and raises it again.
InnerExcept_Reraise ==
    /\ pc = "inner_except"
    /\ errors' = Append(errors, "Error creating agent: " \o exc[1].msg)
    /\ idx' = 0
    /\ agentlist' = <<>>
    /\ results' = <<>>
    /\ pc' = "outer_except"
    /\ UNCHANGED <<groq_api_key, agent_configs, human_input, model, tasklist,
                   hresults, calls, exc, displayed, combined_text,
                   download_content, propagated, lastGood>>

\* InnerExcept that returns what was collected so far.
InnerExcept_ReturnPartial ==
    /\ pc = "inner_except"
    /\ errors' = Append(errors, "Error creating agent: " \o exc[1].msg)
    /\ tasklist' = Some(agentlist)
    /\ hresults' = Some(results)
    /\ idx' = 0
    /\ agentlist' = <<>>
    /\ results' = <<>>
    /\ pc' = "check_none"
    /\ UNCHANGED <<groq_api_key, agent_configs, human_input, model, calls, exc,
                   displayed, combined_text, download_content, propagated,
                   lastGood>>

\* except Exception as e: st.error(...); return None, None
InnerExcept ==
    /\ pc = "inner_except"
    /\ errors' = Append(errors, "Error creating agent: " \o exc[1].msg)
    /\ tasklist' = None
    /\ hresults' = None
    /\ idx' = 0
    /\ agentlist' = <<>>
    /\ results' = <<>>
    /\ pc' = "check_none"
    /\ UNCHANGED <<groq_api_key, agent_configs, human_input, model, calls, exc,
                   displayed, combined_text, download_content, propagated,
                   lastGood>>

\* if tasklist is None: return
CheckNone ==
    /\ pc = "check_none"
    /\ pc' = IF tasklist = None THEN "ret29" ELSE "render"
    /\ UNCHANGED <<groq_api_key, agent_configs, human_input, model, idx,
                   agentlist, results, tasklist, hresults, calls, exc, errors,
                   displayed, combined_text, download_content, propagated,
                   lastGood>>

\* with results_container: the two tabs are filled.
Render ==
    /\ pc = "render"
    /\ displayed' = Some(Rendering(agent_configs, hresults[1]))
    /\ pc' = "report_cfg"
    /\ UNCHANGED <<groq_api_key, agent_configs, human_input, model, idx,
                   agentlist, results, tasklist, hresults, calls, exc, errors,
                   combined_text, download_content, propagated, lastGood>>

\* combined_text = f"""...""" and the loop over the configs.
BuildReportConfig ==
    /\ pc = "report_cfg"
    /\ \E ts \in Timestamps :
          combined_text' =
              Some(AppendConfigs(ReportHead(ts, human_input), agent_configs, 1))
    /\ pc' = "report_res"
    /\ UNCHANGED <<groq_api_key, agent_configs, human_input, model, idx,
                   agentlist, results, tasklist, hresults, calls, exc, errors,
                   displayed, download_content, propagated, lastGood>>

\* combined_text += f"""...""" and the loop over the results.
BuildReportResults ==
    /\ pc = "report_res"
    /\ \E ts \in Timestamps :
          combined_text' =
              Some(AppendResults(Cat(combined_text[1], ResultsHead(ts)),
                                 agent_configs, hresults[1], 1))
    /\ pc' = "store"
    /\ UNCHANGED <<groq_api_key, agent_configs, human_input, model, idx,
                   agentlist, results, tasklist, hresults, calls, exc, errors,
                   displayed, download_content, propagated, lastGood>>

\* st.session_state.download_content = combined_text
StoreReport ==
    /\ pc = "store"
    /\ download_content' = combined_text
    /\ pc' = "ret90"
    /\ UNCHANGED <<groq_api_key, agent_configs, human_input, model, idx,
                   agentlist, results, tasklist, hresults, calls, exc, errors,
                   displayed, combined_text, propagated, lastGood>>

\* except Exception as e: st.error(...); st.error(...)
OuterExcept ==
    /\ pc = "outer_except"
    /\ errors' = errors \o
          <<"An error occurred while creating the crew: " \o exc[1].msg,
            "Please check your GROQ API key and try again.">>
    /\ pc' = "ret93"
    /\ UNCHANGED <<groq_api_key, agent_configs, human_input, model, idx,
                   agentlist, results, tasklist, hresults, calls, exc,
                   displayed, combined_text, download_content, propagated,
                   lastGood>>

\* The ways handle_crew_creation ends.
Returned == pc \in {"ret15", "ret29", "ret90", "ret93"}
Ended == Returned \/ pc = "raised"

\* asyncio.run returns (or raises), the script finishes and waits for the
\* next interaction; only the session state and the page survive.
Return ==
    /\ Ended
    /\ lastGood' = IF pc = "ret90" THEN combined_text ELSE lastGood
    /\ pc' = "idle"
    /\ groq_api_key' = ""
    /\ agent_configs' = <<>>
    /\ human_input' = <<"">>
    /\ model' = None
    /\ tasklist' = None
    /\ hresults' = None
    /\ combined_text' = None
    /\ calls' = <<>>
    /\ exc' = None
    /\ UNCHANGED <<idx, agentlist, results, errors, displayed,
                   download_content, propagated>>

\* The Download tab offers the download button.
DownloadOffered == download_content # None

Next ==
    \/ Click
    \/ CheckKey
    \/ ConstructModel
    \/ LoopNext
    \/ CreateAgent
    \/ StartRun
    \/ RunReturns
    \/ \E p \in RaisePoints : Fail(p)
    \/ InnerExcept
    \/ CheckNone
    \/ Render
    \/ BuildReportConfig
    \/ BuildReportResults
    \/ StoreReport
    \/ OuterExcept
    \/ Return

Spec == Init /\ [][Next]_vars

(***************************************************************************)
(* Properties.                                                             *)
(***************************************************************************)

\* The native string a line-sequence stands for: its lines joined by "\n".
RECURSIVE Str(_)
Str(t) == IF Len(t) = 1 THEN t[1] ELSE t[1] \o "\n" \o Str(Tail(t))

\* The exception of this run was raised at one of the positions ps.
FailedAt(ps) == exc # None /\ exc[1].at \in ps

\* create_and_run_crew is over (it returned, or was never entered because
\* the handle could not be constructed).
AfterDispatch ==
    pc \in {"check_none", "render", "report_cfg", "report_res", "store",
            "outer_except", "ret29", "ret90", "ret93"}

\* The handler holds exactly N results, the i-th being the output of the
\* i-th call, which was made for the i-th config.
YieldsAll ==
    /\ hresults # None
    /\ Len(hresults[1]) = N
    /\ Len(calls) = N
    /\ \A i \in 1..N :
          /\ calls[i].config = i
          /\ calls[i].status = "returned"
          /\ hresults[1][i].final_output = calls[i].output[1]

\* C1 as stated: with the credential present and no remote call raising,
\* a batch run yields exactly N results, in input order, the i-th being the
\* output of the call made for the i-th config.
C1_AsStated ==
    (/\ AfterDispatch
     /\ groq_api_key # ""
     /\ \A j \in 1..Len(calls) : calls[j].status # "raised")
        => YieldsAll

\* C1 amended: with the credential present and neither the construction of
\* the connection handle, nor the preparation of an agent, nor a remote
\* call raising, a batch run over N configs yields exactly N results, in
\* input order, the i-th being the output of the call made for the i-th
\* config.
C1_Yields ==
    (/\ AfterDispatch
     /\ groq_api_key # ""
     /\ ~FailedAt({"model", "agent", "await"}))
        => YieldsAll

C1_Witness ==
    /\ pc = "ret90"
    /\ N = 2
    /\ YieldsAll
    /\ hresults[1][1] # hresults[1][2]

\* The part of C2 both readings share: after the failure at config k no call
\* exists for a later config, nothing runs any more, the partial results are
\* gone, no result list is returned, nothing is displayed, and the run ends
\* at the early return with an error shown.
C2_Abandoned ==
    FailedAt({"agent", "await"}) =>
        /\ pc \in {"inner_except", "check_none", "ret29"}
        /\ \A j \in 1..Len(calls) :
              /\ calls[j].config = j
              /\ calls[j].config <= exc[1].config
              /\ calls[j].status # "pending"
        /\ displayed = None
        /\ combined_text = None
        /\ pc \in {"check_none", "ret29"} =>
              /\ tasklist = None
              /\ hresults = None
              /\ results = <<>>
              /\ agentlist = <<>>
              /\ errors # <<>>

\* C2 as stated: when the k-th remote call, or the preparation of the k-th
\* agent, raises, exactly k calls were started in the run, no call is made
\* for configs k+1..N, the earlier results are discarded, no result list is
\* returned and the run reports failure without displaying results.
C2_AsStated ==
    /\ C2_Abandoned
    /\ FailedAt({"agent", "await"}) => Len(calls) = exc[1].config

\* C2 amended: when the k-th remote call raises exactly k calls were
\* started, and when the preparation of the k-th agent raises exactly k-1;
\* in both cases no call is made for configs k+1..N, the earlier results
\* are discarded, no result list is returned and the run reports failure
\* without displaying results.
C2_Abort ==
    /\ C2_Abandoned
    /\ FailedAt({"await"}) => Len(calls) = exc[1].config
    /\ FailedAt({"agent"}) => Len(calls) = exc[1].config - 1

C2_Witness ==
    /\ pc = "ret29"
    /\ N = 2
    /\ FailedAt({"await"})
    /\ exc[1].config = 1
    /\ Len(calls) = 1

\* C3: with an empty credential the run ends at the first return with one
\* message to the user, having constructed no connection handle, prepared
\* no agent and made no remote call, whatever the configs and the context.
C3_NoCredential ==
    (pc # "idle" /\ groq_api_key = "") =>
        /\ pc \in {"check_key", "ret15"}
        /\ model = None
        /\ agentlist = <<>>
        /\ calls = <<>>
        /\ hresults = None
        /\ displayed = None
        /\ pc = "ret15" =>
              errors = <<"Please enter your GROQ API key in the sidebar!">>

C3_Witness ==
    /\ pc = "ret15"
    /\ groq_api_key = ""
    /\ N = 2
    /\ human_input = <<"focus on Q3">>
    /\ Len(errors) = 1

\* C4: at most one remote call is pending at any time, the j-th call of a
\* run is the call for config j, and a call is started only when every
\* earlier call has returned.
C4_Sequential ==
    /\ Cardinality({j \in 1..Len(calls) : calls[j].status = "pending"}) <= 1
    /\ \A j \in 1..Len(calls) :
          /\ calls[j].config = j
          /\ j < Len(calls) => calls[j].status = "returned"

C4_Witness ==
    /\ Len(calls) = 2
    /\ calls[1].status = "returned"
    /\ calls[2].status = "pending"

\* The results the run holds at this moment.
CurrentResults == IF hresults # None THEN hresults[1] ELSE results

\* C5: every prompt sent is the config's instructions, then the literal
\* "\n\nAdditional Context: ", then the run's shared context; and when the
\* service echoes the prompt for instructions "Summarize X" under context
\* "focus on Q3" the output is
\* "Summarize X\n\nAdditional Context: focus on Q3".
C5_Prompt ==
    \A j \in 1..Len(calls) :
        LET config == agent_configs[calls[j].config] IN
        /\ Str(calls[j].prompt) =
              Str(config.instructions) \o "\n\nAdditional Context: "
                  \o Str(human_input)
        /\ (/\ config.instructions = <<"Summarize X">>
            /\ human_input = <<"focus on Q3">>
            /\ calls[j].output = Some(calls[j].prompt)
            /\ j <= Len(CurrentResults))
              => Str(CurrentResults[j].final_output) =
                    "Summarize X\n\nAdditional Context: focus on Q3"

C5_Witness ==
    /\ pc = "ret90"
    /\ N = 2
    /\ human_input = <<"focus on Q3">>
    /\ agent_configs[2].instructions = <<"Summarize X">>
    /\ calls[2].output = Some(calls[2].prompt)
    /\ agent_configs[1].instructions = <<"Write", "a poem">>

\* C6: no exception leaves handle_crew_creation: whatever raised, the run
\* ends by a return of the handler.
C6_NoEscape ==
    /\ ~propagated
    /\ pc # "raised"
    /\ (exc # None /\ pc # "idle") =>
          pc \in {"inner_except", "outer_except", "check_none", "ret29", "ret93"}

C6_Witness ==
    /\ pc = "ret93"
    /\ FailedAt({"render"})
    /\ ~propagated

\* C7 as stated: a run that fails for a missing credential, a handle
\* construction error, an agent construction error or a remote call error
\* shows exactly one error message, and a successful run shows none.
C7_AsStated ==
    Returned =>
        /\ pc = "ret15" => Len(errors) = 1
        /\ FailedAt({"model", "agent", "await"}) => Len(errors) = 1
        /\ pc = "ret90" => Len(errors) = 0

\* C7 amended: a run that fails for a missing credential, an agent
\* construction error or a remote call error shows exactly one error
\* message; a run that fails for a handle construction error shows exactly
\* two (the error, then the advice to check the key); a successful run
\* shows none.
C7_Messages ==
    Returned =>
        /\ pc = "ret15" => Len(errors) = 1
        /\ FailedAt({"agent", "await"}) =>
              errors = <<"Error creating agent: " \o exc[1].msg>>
        /\ FailedAt({"model"}) =>
              errors = <<"An error occurred while creating the crew: " \o exc[1].msg,
                         "Please check your GROQ API key and try again.">>
        /\ pc = "ret90" => Len(errors) = 0

C7_Witness ==
    /\ pc = "ret93"
    /\ FailedAt({"model"})
    /\ Len(errors) = 2

\* C8: a run rejected for a missing credential, or failed at the handle
\* construction, at an agent's preparation or at a remote call, builds no
\* report text and leaves the stored report as it was before the run.
C8_NothingForReport ==
    (pc # "idle" /\ (groq_api_key = "" \/ FailedAt({"model", "agent", "await"})))
        => /\ combined_text = None
           /\ download_content = lastGood

C8_Witness ==
    /\ pc = "ret29"
    /\ FailedAt({"await"})
    /\ exc[1].config = 2
    /\ Len(calls) = 2
    /\ calls[1].status = "returned"
    /\ combined_text = None
    /\ download_content # None

\* The least position p >= from at which block occurs in lines, 0 if none.
FindBlock(lines, block, from) ==
    LET ps == {p \in from..(Len(lines) - Len(block) + 1) :
                  SubSeq(lines, p, p + Len(block) - 1) = block}
    IN  IF ps = {} THEN 0 ELSE CHOOSE p \in ps : \A q \in ps : p <= q

\* The blocks occur in lines one after the other, without overlap, from
\* position from on.
RECURSIVE InOrder(_, _, _)
InOrder(lines, blocks, from) ==
    IF blocks = <<>> THEN TRUE
    ELSE LET p == FindBlock(lines, Head(blocks), from)
         IN  /\ p # 0
             /\ InOrder(lines, Tail(blocks), p + Len(Head(blocks)))

\* What C9 requires of a report, in order.
ReportLayout(cfgs, ctx, res) ==
    LET rule == "=================================================="
        dash == "--------------------------------------------------"
    IN  <<  <<"AUTONOMOUS CREW BUILDER - COMPLETE REPORT">>,
            <<rule>>,
            <<"PART 1: CREW CONFIGURATION", rule>>,
            <<"Additional Context:">> \o ctx  >>
        \o [i \in 1..Len(cfgs) |->
               <<"Agent " \o ToString(i) \o ": " \o cfgs[i].name, "Instructions:">>
                   \o cfgs[i].instructions \o <<dash>>]
        \o << <<rule, "PART 2: CREW RESULTS", rule>> >>
        \o [i \in 1..Len(cfgs) |->
               <<"Agent " \o ToString(i) \o ": " \o cfgs[i].name, "Output:">>
                   \o res[i].final_output \o <<dash>>]

\* C9: the report built for a completed run starts with the header line
\* and holds, in this order, the configuration section with its title
\* between rule lines of 50 '=', the shared context and, for i = 1..N, the
\* i-th agent's name and instructions verbatim followed by a line of 50
\* '-', then the results section with its title between rule lines and, for
\* i = 1..N, the i-th agent's name and the i-th output verbatim followed by
\* a line of 50 '-'.
C9_Report ==
    pc \in {"store", "ret90"} =>
        /\ combined_text # None
        /\ Len(hresults[1]) = N
        /\ combined_text[1][1] = "AUTONOMOUS CREW BUILDER - COMPLETE REPORT"
        /\ InOrder(combined_text[1],
                   ReportLayout(agent_configs, human_input, hresults[1]), 1)

C9_Witness ==
    /\ pc = "ret90"
    /\ N = 2
    /\ human_input = <<"focus on Q3">>
    /\ agent_configs[1].instructions = <<"Write", "a poem">>
    /\ agent_configs[2].name = "Researcher"
    /\ hresults[1][1].final_output # hresults[1][2].final_output

\* C10: between runs the stored report is the report of the most recent
\* run that succeeded, and is unset when none has; a run that returns
\* without succeeding has left it as it was, so the download stays offered;
\* a run that succeeds has stored its own report.
C10_StoredReport ==
    /\ pc = "idle" =>
          /\ download_content = lastGood
          /\ DownloadOffered <=> lastGood # None
    /\ (Returned /\ pc # "ret90") => download_content = lastGood
    /\ pc = "ret90" =>
          /\ combined_text # None
          /\ download_content = combined_text

C10_Witness ==
    /\ pc = "idle"
    /\ DownloadOffered
    /\ download_content = lastGood
    /\ Len(errors) = 2

====
